---- MODULE Spec2Model ----
(***************************************************************************)
(* Model of the blogicum blog application (blog/models.py, blog/forms.py,  *)
(* blog/urls.py, blog/views.py).                                           *)
(*                                                                         *)
(* The state is the relational store (posts, comments, categories,         *)
(* locations), the clock, and the last request with its response.  Every   *)
(* request handler of views.py is one action.  The framework pieces the    *)
(* handlers rely on (URL keyword arguments, reverse(), the generic         *)
(* get_object(), the access mixins, Paginator) are operators that follow   *)
(* what the framework does with the attributes this repository sets.       *)
(*                                                                         *)
(* Abstractions: title, text and image of a post are not stored; of the    *)
(* fields of a user that UserForm edits only first_name is stored;         *)
(* usernames are their own slugs; rows with equal pub_date are listed by   *)
(* descending id.  A write is committed when it is made (the framework's   *)
(* default, no transaction around the request), so an exception raised     *)
(* after save() leaves the row saved.                                      *)
(***************************************************************************)
EXTENDS Integers, Sequences, FiniteSets, TLC

\* ------------------------------------------------------------------ bounds
MaxPosts == 2
MaxComments == 1
MaxTime == 1
MaxItems == 11
MaxPageNo == 3

\* ------------------------------------------------------- program constants
NUMBER_POSTS == 10

\* -------------------------------------------------------------- value sets
Users == {"u1", "u2"}
Anon == "anon"
Requesters == Users \cup {Anon}
UserNames == Users \cup {"nobody"}
Slugs == {"c1"}
SlugArgs == Slugs \cup {"nocat"}
LocIds == {"l1"}
NoCategory == "null"
NoLocation == "null"
Texts == {"a", "b"}
EmptyText == ""
PostIds == 1..MaxPosts
CommentIds == 1..MaxComments
Times == 0..MaxTime

VARIABLES now, posts, nextPostId, comments, nextCommentId, categories,
          locations, users, request, response

vars == <<now, posts, nextPostId, comments, nextCommentId, categories,
          locations, users, request, response>>
db == <<posts, nextPostId, comments, nextCommentId, categories, locations,
        users>>

\* ---------------------------------------------------------------- requests
PageAbsent == [kind |-> "absent", n |-> 0]
PageLast == [kind |-> "last", n |-> 0]
PageText == [kind |-> "text", n |-> 0]
PageInt(n) == [kind |-> "int", n |-> n]
PageReqs == {PageAbsent, PageLast, PageText} \cup {PageInt(n) : n \in 0..MaxPageNo}

\* The request as the handlers read it: the route, the method, request.user,
\* the URL's integers and name, ?page=, and the text field of a comment form.
NoRequest == [kind |-> "none", method |-> "GET", user |-> Anon, post_id |-> 0,
              comment_id |-> 0, name |-> "", page |-> PageAbsent, text |-> EmptyText]

Req(kind, method, user) == [NoRequest EXCEPT !.kind = kind, !.method = method,
                                             !.user = user]

\* --------------------------------------------------------------- responses
NoResponse == [status |-> "none", view |-> "", id |-> 0, name |-> "",
               page |-> 0, items |-> <<>>, error |-> ""]
Ok == [NoResponse EXCEPT !.status = "OK"]
OkPost(pid) == [Ok EXCEPT !.id = pid]
OkPage(n, items) == [Ok EXCEPT !.page = n, !.items = items]
NotFound == [NoResponse EXCEPT !.status = "NotFound"]
Forbidden == [NoResponse EXCEPT !.status = "Forbidden"]
RedirectLogin == [NoResponse EXCEPT !.status = "Redirect", !.view = "login"]
ServerError(exc) == [NoResponse EXCEPT !.status = "ServerError", !.error = exc]
RedirectTo(view, id, name) == [NoResponse EXCEPT !.status = "Redirect", !.view = view,
                                                 !.id = id, !.name = name]

\* ------------------------------------------------------------ URL patterns
\* urls.py: the keyword arguments each named route captures.
UrlKwargs == [index |-> {},
              post_detail |-> {"post_id"},
              category_posts |-> {"category_slug"},
              create_post |-> {},
              profile |-> {"user_name"},
              edit_profile |-> {},
              edit_post |-> {"post_id"},
              delete_post |-> {"post_id"},
              add_comment |-> {"comment_id"},
              edit_comment |-> {"post_id", "comment_id"},
              delete_comment |-> {"post_id", "comment_id"}]

\* The integer keyword arguments a request to `view` carries.  The number in
\* posts/<n>/comment/ is captured under the name comment_id.
Kwargs(view, r) ==
    CASE view = "add_comment" -> [comment_id |-> r.post_id]
      [] view \in {"edit_comment", "delete_comment"} ->
             [post_id |-> r.post_id, comment_id |-> r.comment_id]
      [] OTHER -> [post_id |-> r.post_id]

\* reverse(view, kwargs={...}): a pattern matches only when the given names
\* are exactly the names it captures; otherwise NoReverseMatch.
ReverseKwargs(view, names) == names = UrlKwargs[view]

\* reverse(view, args=[...]): positional arguments match by count.
ReverseArgs(view, nargs) == nargs = Cardinality(UrlKwargs[view])

\* redirect()/HttpResponseRedirect(reverse('blog:post_detail', kwargs={'pk': id}))
RedirectPostDetailPk(id) ==
    IF ReverseKwargs("post_detail", {"pk"})
    THEN RedirectTo("post_detail", id, "")
    ELSE ServerError("NoReverseMatch")

\* HttpResponseRedirect(reverse('blog:profile', args=[username]))
RedirectProfile(username) ==
    IF ReverseArgs("profile", 1)
    THEN RedirectTo("profile", 0, username)
    ELSE ServerError("NoReverseMatch")

\* ------------------------------------------------------- generic get_object
\* The post views set no pk_url_kwarg, so the generic get_object() looks the
\* primary key up under the framework's default name.
PK_URL_KWARG == "pk"

NoException == ""
Found(id) == [exc |-> NoException, id |-> id]
Raised(exc) == [exc |-> exc, id |-> 0]

\* SingleObjectMixin.get_object() over the Post table, as the post views
\* inherit it: AttributeError when the URL captured neither pk nor slug.
GetObject(kwargs) ==
    IF PK_URL_KWARG \notin DOMAIN kwargs THEN Raised("AttributeError")
    ELSE IF kwargs[PK_URL_KWARG] \in DOMAIN posts THEN Found(kwargs[PK_URL_KWARG])
    ELSE Raised("Http404")

\* get_object_or_404(Post, pk=id)
GetPostOr404(id) == IF id \in DOMAIN posts THEN Found(id) ELSE Raised("Http404")

\* ------------------------------------------------------------- querysets
CategoryPublished(p) ==
    /\ posts[p].category # NoCategory
    /\ categories[posts[p].category].is_published

\* get_posts(): the filter of the home listing.
get_posts_filter(p) ==
    /\ posts[p].pub_date < now
    /\ posts[p].is_published
    /\ CategoryPublished(p)

get_posts(base, filters) ==
    IF filters THEN {p \in base : get_posts_filter(p)} ELSE base

\* The filter CommentCreateView.form_valid looks the target post up with.
CommentTargetFilter(p) ==
    /\ posts[p].pub_date <= now
    /\ posts[p].is_published
    /\ CategoryPublished(p)

\* The filter of CategoryPostsView.get_queryset.
CategoryFilter(p, slug) ==
    /\ posts[p].pub_date <= now
    /\ posts[p].is_published
    /\ posts[p].category = slug

\* order_by('-pub_date')
Newest(S) == CHOOSE p \in S : \A q \in S :
                 \/ posts[q].pub_date < posts[p].pub_date
                 \/ (posts[q].pub_date = posts[p].pub_date /\ q <= p)

RECURSIVE OrderByPubDateDesc(_)
OrderByPubDateDesc(S) ==
    IF S = {} THEN <<>>
    ELSE <<Newest(S)>> \o OrderByPubDateDesc(S \ {Newest(S)})

\* --------------------------------------------------------------- Paginator
Min(a, b) == IF a < b THEN a ELSE b

\* Paginator.num_pages with allow_empty_first_page and no orphans.
NumPages(count) ==
    IF count = 0 THEN 1 ELSE (count + NUMBER_POSTS - 1) \div NUMBER_POSTS

\* Paginator.validate_number
ValidateNumber(count, page) ==
    IF page.kind # "int" THEN [exc |-> "PageNotAnInteger", n |-> 0]
    ELSE IF page.n < 1 THEN [exc |-> "EmptyPage", n |-> 0]
    ELSE IF page.n > NumPages(count) THEN [exc |-> "EmptyPage", n |-> 0]
    ELSE [exc |-> NoException, n |-> page.n]

\* get_page had it clamped a page number below 1 to the first page.
GetPageNearest(count, page) ==
    LET v == ValidateNumber(count, page)
    IN  IF v.exc = "PageNotAnInteger" THEN 1
        ELSE IF v.exc = "EmptyPage" /\ page.n < 1 THEN 1
        ELSE IF v.exc = "EmptyPage" THEN NumPages(count)
        ELSE v.n

\* Paginator.get_page, used by profile(): never raises.
GetPage(count, page) ==
    LET v == ValidateNumber(count, page)
    IN  IF v.exc = "PageNotAnInteger" THEN 1
        ELSE IF v.exc = "EmptyPage" THEN NumPages(count)
        ELSE v.n

\* MultipleObjectMixin.paginate_queryset, used by the ListViews through
\* paginate_by: 0 stands for Http404.
PaginateQueryset(count, page) ==
    LET number == IF page.kind = "absent" THEN PageInt(1)
                  ELSE IF page.kind = "last" THEN PageInt(NumPages(count))
                  ELSE page
        v == ValidateNumber(count, number)
    IN  IF v.exc # NoException THEN 0 ELSE v.n

PageItems(seq, n) ==
    SubSeq(seq, (n - 1) * NUMBER_POSTS + 1, Min(n * NUMBER_POSTS, Len(seq)))

\* ------------------------------------------------------------------- store
\* What a handler leaves in the tables it can write.
Store == [posts |-> posts, nextPostId |-> nextPostId,
          comments |-> comments, nextCommentId |-> nextCommentId]

Out(resp, store) == [resp |-> resp, store |-> store]

Unchanged(resp) == Out(resp, Store)

Proceed == [NoResponse EXCEPT !.status = "proceed"]

\* How an exception that leaves a view reaches the client.
ExcResponse(exc) ==
    IF exc = "Http404" THEN NotFound
    ELSE IF exc = "PermissionDenied" THEN Forbidden
    ELSE ServerError(exc)

\* Post.delete() had Comment.post been declared on_delete=DO_NOTHING.
DeletePostNoCascade(store, pid) ==
    [store EXCEPT
        !.posts = [q \in DOMAIN store.posts \ {pid} |-> store.posts[q]]]

\* Post.delete(): Comment.post is on_delete=CASCADE.
DeletePost(store, pid) ==
    [store EXCEPT
        !.posts = [q \in DOMAIN store.posts \ {pid} |-> store.posts[q]],
        !.comments = [c \in {d \in DOMAIN store.comments :
                                  store.comments[d].post # pid}
                          |-> store.comments[c]]]

\* Comment.delete()
DeleteComment(store, cid) ==
    [store EXCEPT
        !.comments = [c \in DOMAIN store.comments \ {cid} |-> store.comments[c]]]

\* ModelForm.save() of PostForm on a new instance whose author was set.
InsertPost(store, author, form) ==
    [store EXCEPT
        !.posts = [q \in DOMAIN store.posts \cup {store.nextPostId} |->
                      IF q = store.nextPostId
                      THEN [author |-> author,
                            is_published |-> form.is_published,
                            pub_date |-> form.pub_date,
                            category |-> form.category,
                            location |-> form.location]
                      ELSE store.posts[q]],
        !.nextPostId = store.nextPostId + 1]

\* ModelForm.save() of PostForm on an existing instance: the form excludes
\* author and created_at.
UpdatePost(store, pid, form) ==
    [store EXCEPT
        !.posts[pid] = [author |-> store.posts[pid].author,
                        is_published |-> form.is_published,
                        pub_date |-> form.pub_date,
                        category |-> form.category,
                        location |-> form.location]]

\* ModelForm.save() of CommentForm on a new instance.
InsertComment(store, author, pid, text) ==
    [store EXCEPT
        !.comments = [c \in DOMAIN store.comments \cup {store.nextCommentId} |->
                         IF c = store.nextCommentId
                         THEN [post |-> pid, author |-> author, text |-> text]
                         ELSE store.comments[c]],
        !.nextCommentId = store.nextCommentId + 1]

\* ModelForm.save() had CommentForm also set the author, to the author of
\* the post commented on.
UpdateCommentAndAuthor(store, cid, text) ==
    [store EXCEPT
        !.comments[cid].text = text,
        !.comments[cid].author = store.posts[store.comments[cid].post].author]

\* ModelForm.save() of CommentForm on an existing instance: text only.
UpdateComment(store, cid, text) ==
    [store EXCEPT !.comments[cid].text = text]

\* PostForm.is_valid(): category is required and both choices must exist.
PostFormValid(form) ==
    /\ form.category \in DOMAIN categories
    /\ form.location \in locations \cup {NoLocation}

\* CommentForm.is_valid(): text is required.
CommentFormValid(text) == text # EmptyText

\* ---------------------------------------------------------------- handlers
\* PostListView: get_posts() paginated by NUMBER_POSTS.
PostListView(r) ==
    LET seq == OrderByPubDateDesc(get_posts(DOMAIN posts, TRUE))
        n == PaginateQueryset(Len(seq), r.page)
    IN  IF n = 0 THEN NotFound ELSE OkPage(n, PageItems(seq, n))

\* CategoryPostsView: the category must exist and be published.
CategoryPostsView(r) ==
    IF r.name \notin DOMAIN categories THEN NotFound
    ELSE IF ~categories[r.name].is_published THEN NotFound
    ELSE LET base == get_posts(DOMAIN posts, FALSE)
             seq == OrderByPubDateDesc({p \in base : CategoryFilter(p, r.name)})
             n == PaginateQueryset(Len(seq), r.page)
         IN  IF n = 0 THEN NotFound ELSE OkPage(n, PageItems(seq, n))

\* profile(): every post of the user, whoever asks; get_page never raises.
profile(r) ==
    IF r.name \notin Users THEN NotFound
    ELSE LET base == get_posts(DOMAIN posts, FALSE)
             seq == OrderByPubDateDesc({p \in base : posts[p].author = r.name})
             n == GetPage(Len(seq), r.page)
         IN  [OkPage(n, PageItems(seq, n)) EXCEPT !.name = r.name]

\* get_queryset had it returned the queryset without the author test.
PostDetailGetQuerysetAnyone(user, kwargs) ==
    IF "post_id" \notin DOMAIN kwargs THEN Raised("KeyError")
    ELSE GetPostOr404(kwargs.post_id)

\* PostDetailView.get_queryset
PostDetailGetQueryset(user, kwargs) ==
    IF "post_id" \notin DOMAIN kwargs THEN Raised("KeyError")
    ELSE LET post == GetPostOr404(kwargs.post_id)
         IN  IF post.exc # NoException THEN post
             ELSE IF ~posts[post.id].is_published /\ posts[post.id].author # user
                  THEN Raised("Http404")
             ELSE post

\* PostDetailView: BaseDetailView.get() calls get_object(), which calls
\* get_queryset() first and then looks the primary key up in the URL.
PostDetailView(r) ==
    LET kwargs == Kwargs("post_detail", r)
        qs == PostDetailGetQueryset(r.user, kwargs)
        obj == GetObject(kwargs)
    IN  IF qs.exc # NoException THEN ExcResponse(qs.exc)
        ELSE IF obj.exc # NoException THEN ExcResponse(obj.exc)
        ELSE OkPost(obj.id)

\* PostUpdateView.dispatch and PostDeleteView.dispatch (the same code): the
\* ownership check runs before LoginRequiredMixin.dispatch.
PostDispatch(view, r) ==
    LET obj == GetObject(Kwargs(view, r))
    IN  IF obj.exc # NoException THEN ExcResponse(obj.exc)
        ELSE IF posts[obj.id].author # r.user THEN RedirectPostDetailPk(r.post_id)
        ELSE IF r.user = Anon THEN RedirectLogin
        ELSE Proceed

\* PostUpdateView had it been a LoginRequiredMixin UpdateView that finds the
\* post under post_id and overrides no dispatch.
PostUpdateViewAnyUser(r, form) ==
    IF r.user = Anon THEN Unchanged(RedirectLogin)
    ELSE IF r.post_id \notin DOMAIN posts THEN Unchanged(NotFound)
    ELSE IF r.method = "GET" THEN Unchanged(Ok)
    ELSE IF ~PostFormValid(form) THEN Unchanged(Ok)
    ELSE Out(RedirectProfile(r.user), UpdatePost(Store, r.post_id, form))

\* PostUpdateView
PostUpdateView(r, form) ==
    LET d == PostDispatch("edit_post", r)
        obj == GetObject(Kwargs("edit_post", r))
    IN  IF d # Proceed THEN Unchanged(d)
        ELSE IF obj.exc # NoException THEN Unchanged(ExcResponse(obj.exc))
        ELSE IF r.method = "GET" THEN Unchanged(Ok)
        ELSE IF ~PostFormValid(form) THEN Unchanged(Ok)
        ELSE Out(RedirectProfile(r.user), UpdatePost(Store, obj.id, form))

\* PostDeleteView: the success URL is built before the row is deleted.
PostDeleteView(r) ==
    LET d == PostDispatch("delete_post", r)
        obj == GetObject(Kwargs("delete_post", r))
        url == RedirectProfile(r.user)
    IN  IF d # Proceed THEN Unchanged(d)
        ELSE IF obj.exc # NoException THEN Unchanged(ExcResponse(obj.exc))
        ELSE IF r.method = "GET" THEN Unchanged(Ok)
        ELSE IF url.status = "ServerError" THEN Unchanged(url)
        ELSE Out(url, DeletePost(Store, obj.id))

\* PostCreateView: LoginRequiredMixin, form_valid sets the author.
PostCreateView(r, form) ==
    IF r.user = Anon THEN Unchanged(RedirectLogin)
    ELSE IF r.method = "GET" THEN Unchanged(Ok)
    ELSE IF ~PostFormValid(form) THEN Unchanged(Ok)
    ELSE Out(RedirectProfile(r.user), InsertPost(Store, r.user, form))

\* CommentCreateView.get_success_url: self.kwargs['pk']
CommentCreateSuccessUrl(kwargs) ==
    IF "pk" \notin DOMAIN kwargs THEN ServerError("KeyError")
    ELSE RedirectPostDetailPk(kwargs.pk)

\* CommentCreateView: LoginRequiredMixin; form_valid looks the post up by
\* self.kwargs['comment_id'], saves, and only then builds the success URL.
CommentCreateView(r) ==
    LET kwargs == Kwargs("add_comment", r)
    IN  IF r.user = Anon THEN Unchanged(RedirectLogin)
        ELSE IF r.method = "GET" THEN Unchanged(Ok)
        ELSE IF ~CommentFormValid(r.text) THEN Unchanged(Ok)
        ELSE IF "comment_id" \notin DOMAIN kwargs THEN Unchanged(ServerError("KeyError"))
        ELSE IF ~(kwargs.comment_id \in DOMAIN posts
                  /\ CommentTargetFilter(kwargs.comment_id))
             THEN Unchanged(NotFound)
        ELSE Out(CommentCreateSuccessUrl(kwargs),
                 InsertComment(Store, r.user, kwargs.comment_id, r.text))

\* CommentMixin.get_object: get_object_or_404(Comment, id=kwargs.get('comment_id'))
CommentGetObject(kwargs) ==
    IF "comment_id" \notin DOMAIN kwargs THEN Raised("Http404")
    ELSE IF kwargs.comment_id \in DOMAIN comments THEN Found(kwargs.comment_id)
    ELSE Raised("Http404")

\* CommentMixin.test_func
test_func(user, kwargs) ==
    LET comment == CommentGetObject(kwargs)
    IN  IF comment.exc # NoException THEN comment.exc
        ELSE IF comments[comment.id].author = user THEN "pass" ELSE "fail"

\* CommentMixin dispatch chain: LoginRequiredMixin.dispatch, then
\* UserPassesTestMixin.dispatch.
CommentDispatch(r, kwargs) ==
    IF r.user = Anon THEN RedirectLogin
    ELSE LET t == test_func(r.user, kwargs)
         IN  IF t = "pass" THEN Proceed
             ELSE IF t = "fail" THEN Forbidden
             ELSE ExcResponse(t)

\* CommentMixin.get_success_url: the post_id of the URL, reversed under pk.
CommentSuccessUrl(kwargs) ==
    IF "post_id" \notin DOMAIN kwargs THEN ServerError("NoReverseMatch")
    ELSE RedirectPostDetailPk(kwargs.post_id)

\* CommentUpdateView: the form is saved before the success URL is built.
CommentUpdateView(r) ==
    LET kwargs == Kwargs("edit_comment", r)
        d == CommentDispatch(r, kwargs)
    IN  IF d # Proceed THEN Unchanged(d)
        ELSE IF r.method = "GET" THEN Unchanged(Ok)
        ELSE IF ~CommentFormValid(r.text) THEN Unchanged(Ok)
        ELSE Out(CommentSuccessUrl(kwargs),
                 UpdateComment(Store, kwargs.comment_id, r.text))

\* CommentDeleteView: the success URL is built before the row is deleted.
CommentDeleteView(r) ==
    LET kwargs == Kwargs("delete_comment", r)
        d == CommentDispatch(r, kwargs)
        url == CommentSuccessUrl(kwargs)
    IN  IF d # Proceed THEN Unchanged(d)
        ELSE IF r.method = "GET" THEN Unchanged(Ok)
        ELSE IF url.status = "ServerError" THEN Unchanged(url)
        ELSE Out(url, DeleteComment(Store, kwargs.comment_id))

\* ModelForm.save() of UserForm: first_name, last_name and email of the row.
SaveUser(us, user, form) == [us EXCEPT ![user].first_name = form.first_name]

\* UserUpdateView: LoginRequiredMixin; get_object returns request.user; the
\* fields of UserForm are all optional, so a submitted form is valid.
UserUpdateView(r, form) ==
    IF r.user = Anon THEN [resp |-> RedirectLogin, users |-> users]
    ELSE IF r.method = "GET" THEN [resp |-> Ok, users |-> users]
    ELSE [resp |-> RedirectProfile(r.user),
          users |-> SaveUser(users, r.user, form)]

\* --------------------------------------------------- administrative deletes
\* Category.delete(): Post.category is on_delete=SET_NULL.
SetNullCategory(ps, slug) ==
    [q \in DOMAIN ps |-> IF ps[q].category = slug
                         THEN [ps[q] EXCEPT !.category = NoCategory]
                         ELSE ps[q]]

\* Location.delete(): Post.location is on_delete=SET_NULL.
SetNullLocation(ps, loc) ==
    [q \in DOMAIN ps |-> IF ps[q].location = loc
                         THEN [ps[q] EXCEPT !.location = NoLocation]
                         ELSE ps[q]]

\* ------------------------------------------------------------------ actions
\* The rows of User as created: no first name.
NoNames == [u \in Users |-> [first_name |-> EmptyText]]

EmptyTable == [x \in {} |-> 0]

\* The fields of a submitted PostForm: the choices offered are the rows that
\* exist, and the category may be left blank.
PostForms == [is_published : BOOLEAN, pub_date : Times,
              category : DOMAIN categories \cup {NoCategory},
              location : locations \cup {NoLocation}]
NoForm == [is_published |-> TRUE, pub_date |-> 0, category |-> NoCategory,
           location |-> NoLocation]
CommentTexts == Texts \cup {EmptyText}
Methods == {"GET", "POST"}
FirstNames == {EmptyText, "a"}
UserForms == [first_name : FirstNames]
NoUserForm == [first_name |-> EmptyText]

Apply(out) ==
    /\ out.store.nextPostId <= MaxPosts + 1
    /\ out.store.nextCommentId <= MaxComments + 1
    /\ response' = out.resp
    /\ posts' = out.store.posts
    /\ nextPostId' = out.store.nextPostId
    /\ comments' = out.store.comments
    /\ nextCommentId' = out.store.nextCommentId
    /\ UNCHANGED <<now, users, categories, locations>>

Index ==
    \E u \in Requesters, pg \in PageReqs :
        /\ request' = [Req("index", "GET", u) EXCEPT !.page = pg]
        /\ response' = PostListView(request')
        /\ UNCHANGED <<now, db>>

CategoryPosts ==
    \E u \in Requesters, slug \in SlugArgs, pg \in PageReqs :
        /\ request' = [Req("category_posts", "GET", u) EXCEPT !.name = slug, !.page = pg]
        /\ response' = CategoryPostsView(request')
        /\ UNCHANGED <<now, db>>

Profile ==
    \E u \in Requesters, name \in UserNames, pg \in PageReqs :
        /\ request' = [Req("profile", "GET", u) EXCEPT !.name = name, !.page = pg]
        /\ response' = profile(request')
        /\ UNCHANGED <<now, db>>

PostDetail ==
    \E u \in Requesters, pid \in PostIds :
        /\ request' = [Req("post_detail", "GET", u) EXCEPT !.post_id = pid]
        /\ response' = PostDetailView(request')
        /\ UNCHANGED <<now, db>>

PostCreate ==
    \E u \in Requesters, m \in Methods :
        \E f \in IF m = "GET" THEN {NoForm} ELSE PostForms :
            /\ request' = Req("create_post", m, u)
            /\ Apply(PostCreateView(request', f))

PostUpdate ==
    \E u \in Requesters, pid \in PostIds, m \in Methods :
        \E f \in IF m = "GET" THEN {NoForm} ELSE PostForms :
            /\ request' = [Req("edit_post", m, u) EXCEPT !.post_id = pid]
            /\ Apply(PostUpdateView(request', f))

PostDelete ==
    \E u \in Requesters, pid \in PostIds, m \in Methods :
        /\ request' = [Req("delete_post", m, u) EXCEPT !.post_id = pid]
        /\ Apply(PostDeleteView(request'))

CommentCreate ==
    \E u \in Requesters, pid \in PostIds, m \in Methods :
        \E t \in IF m = "GET" THEN {EmptyText} ELSE CommentTexts :
            /\ request' = [Req("add_comment", m, u) EXCEPT !.post_id = pid, !.text = t]
            /\ Apply(CommentCreateView(request'))

CommentUpdate ==
    \E u \in Requesters, pid \in PostIds, cid \in CommentIds, m \in Methods :
        \E t \in IF m = "GET" THEN {EmptyText} ELSE CommentTexts :
            /\ request' = [Req("edit_comment", m, u) EXCEPT !.post_id = pid,
                                                            !.comment_id = cid, !.text = t]
            /\ Apply(CommentUpdateView(request'))

CommentDelete ==
    \E u \in Requesters, pid \in PostIds, cid \in CommentIds, m \in Methods :
        /\ request' = [Req("delete_comment", m, u) EXCEPT !.post_id = pid,
                                                          !.comment_id = cid]
        /\ Apply(CommentDeleteView(request'))

UserUpdate ==
    \E u \in Requesters, m \in Methods :
        \E f \in IF m = "GET" THEN {NoUserForm} ELSE UserForms :
            LET out == UserUpdateView(Req("edit_profile", m, u), f)
            IN  /\ request' = Req("edit_profile", m, u)
                /\ response' = out.resp
                /\ users' = out.users
                /\ UNCHANGED <<now, posts, nextPostId, comments, nextCommentId,
                               categories, locations>>

\* The administrative surface: rows of Category and Location are created,
\* hidden and deleted there, and any row can be deleted there.
Admin(kind, name, id) ==
    /\ request' = [Req(kind, "POST", Anon) EXCEPT !.name = name, !.post_id = id]
    /\ response' = NoResponse

AdminCreateCategory ==
    \E slug \in Slugs \ DOMAIN categories :
        /\ Admin("admin_create_category", slug, 0)
        /\ categories' = [c \in DOMAIN categories \cup {slug} |->
                             IF c = slug THEN [is_published |-> TRUE]
                             ELSE categories[c]]
        /\ UNCHANGED <<now, users, posts, nextPostId, comments, nextCommentId, locations>>

AdminHideCategory ==
    \E slug \in DOMAIN categories :
        /\ Admin("admin_hide_category", slug, 0)
        /\ categories' = [categories EXCEPT ![slug].is_published = ~@]
        /\ UNCHANGED <<now, users, posts, nextPostId, comments, nextCommentId, locations>>

AdminDeleteCategory ==
    \E slug \in DOMAIN categories :
        /\ Admin("admin_delete_category", slug, 0)
        /\ categories' = [c \in DOMAIN categories \ {slug} |-> categories[c]]
        /\ posts' = SetNullCategory(posts, slug)
        /\ UNCHANGED <<now, users, nextPostId, comments, nextCommentId, locations>>

AdminCreateLocation ==
    \E loc \in LocIds \ locations :
        /\ Admin("admin_create_location", loc, 0)
        /\ locations' = locations \cup {loc}
        /\ UNCHANGED <<now, users, posts, nextPostId, comments, nextCommentId, categories>>

AdminDeleteLocation ==
    \E loc \in locations :
        /\ Admin("admin_delete_location", loc, 0)
        /\ locations' = locations \ {loc}
        /\ posts' = SetNullLocation(posts, loc)
        /\ UNCHANGED <<now, users, nextPostId, comments, nextCommentId, categories>>

AdminDeletePost ==
    \E pid \in DOMAIN posts :
        /\ Admin("admin_delete_post", "", pid)
        /\ posts' = DeletePost(Store, pid).posts
        /\ comments' = DeletePost(Store, pid).comments
        /\ UNCHANGED <<now, users, nextPostId, nextCommentId, categories, locations>>

Tick ==
    /\ now < MaxTime
    /\ now' = now + 1
    /\ request' = Req("tick", "GET", Anon)
    /\ response' = NoResponse
    /\ UNCHANGED db

\* The store after migration: no rows.
Init ==
    /\ now = 0
    /\ posts = EmptyTable
    /\ nextPostId = 1
    /\ comments = EmptyTable
    /\ nextCommentId = 1
    /\ categories = EmptyTable
    /\ locations = {}
    /\ users = NoNames
    /\ request = NoRequest
    /\ response = NoResponse

Next ==
    \/ Index
    \/ CategoryPosts
    \/ Profile
    \/ PostDetail
    \/ PostCreate
    \/ PostUpdate
    \/ PostDelete
    \/ CommentCreate
    \/ CommentUpdate
    \/ CommentDelete
    \/ UserUpdate
    \/ AdminCreateCategory
    \/ AdminHideCategory
    \/ AdminDeleteCategory
    \/ AdminCreateLocation
    \/ AdminDeleteLocation
    \/ AdminDeletePost
    \/ Tick

Spec == Init /\ [][Next]_vars

\* Visibility: posts are created, time passes, categories are hidden or
\* deleted, and the home listing and the detail view are requested.
NextVis ==
    \/ AdminCreateCategory
    \/ AdminHideCategory
    \/ AdminDeleteCategory
    \/ Tick
    \/ PostCreate
    \/ Index
    \/ PostDetail

SpecVis == Init /\ [][NextVis]_vars

\* Post mutation: posts and comments are created, posts edited and deleted.
NextPosts ==
    \/ AdminCreateCategory
    \/ PostCreate
    \/ CommentCreate
    \/ PostUpdate
    \/ PostDelete

SpecPosts == Init /\ [][NextPosts]_vars

\* Comments: created, edited and deleted on posts of varying visibility.
NextComments ==
    \/ AdminCreateCategory
    \/ AdminHideCategory
    \/ Tick
    \/ PostCreate
    \/ CommentCreate
    \/ CommentUpdate
    \/ CommentDelete

SpecComments == Init /\ [][NextComments]_vars

\* Referential integrity: rows are created and deleted.
NextRef ==
    \/ AdminCreateCategory
    \/ AdminCreateLocation
    \/ PostCreate
    \/ CommentCreate
    \/ AdminDeletePost
    \/ AdminDeleteLocation
    \/ AdminDeleteCategory

SpecRef == Init /\ [][NextRef]_vars

\* Pagination: a store of n published posts of one author in one category,
\* and the three listings requested with every page value.
InitPage ==
    /\ now = 1
    /\ \E n \in 0..MaxItems :
          /\ posts = [q \in 1..n |-> [author |-> "u1", is_published |-> TRUE,
                                      pub_date |-> 0, category |-> "c1",
                                      location |-> NoLocation]]
          /\ nextPostId = n + 1
    /\ comments = EmptyTable
    /\ nextCommentId = 1
    /\ categories = [c \in Slugs |-> [is_published |-> TRUE]]
    /\ locations = {}
    /\ users = NoNames
    /\ request = NoRequest
    /\ response = NoResponse

NextPage ==
    \/ Index
    \/ CategoryPosts
    \/ Profile

SpecPage == InitPage /\ [][NextPage]_vars

\* ------------------------------------------------------------------ claims
Range(seq) == {seq[i] : i \in DOMAIN seq}
Exists(pid) == pid \in DOMAIN posts

\* The visibility the specification states: published, pub_date not after
\* now, and the category, if any, published.
PubliclyVisible(p) ==
    /\ posts[p].is_published
    /\ posts[p].pub_date <= now
    /\ (posts[p].category = NoCategory \/ categories[posts[p].category].is_published)

\* C1: a post is on the home listing if and only if it is published, its
\* pub_date is not after now, and its category is null or published.  (A store
\* of at most NUMBER_POSTS posts is listed whole on page 1.)
C1_HomeListingIffVisible ==
    (request.kind = "index" /\ response.status = "OK" /\ response.page = 1
        /\ Cardinality(DOMAIN posts) <= NUMBER_POSTS)
    => \A p \in DOMAIN posts : (p \in Range(response.items)) <=> PubliclyVisible(p)

\* C2: the detail view of an unpublished post, requested by anyone but its
\* author, ends in NotFound.
C2_UnpublishedHiddenFromOthers ==
    (request.kind = "post_detail" /\ Exists(request.post_id)
        /\ ~posts[request.post_id].is_published
        /\ request.user # posts[request.post_id].author)
    => response = NotFound

C2_Witness ==
    /\ request.kind = "post_detail"
    /\ Exists(request.post_id)
    /\ ~posts[request.post_id].is_published
    /\ request.user \in Users
    /\ request.user # posts[request.post_id].author
    /\ response = NotFound

\* C8: the detail view of a published post whose pub_date is after now ends in
\* NotFound for an anonymous requester and returns the post to its author.
C8_ScheduledPostDetail ==
    (request.kind = "post_detail" /\ Exists(request.post_id)
        /\ posts[request.post_id].is_published
        /\ posts[request.post_id].pub_date > now)
    => /\ (request.user = Anon => response = NotFound)
       /\ (request.user = posts[request.post_id].author
              => response = OkPost(request.post_id))

\* A step that handles a request to edit or delete a post.
PostMutationStep == request'.kind \in {"edit_post", "delete_post"}

\* C3: an edit or delete request changes or removes a post only when the
\* requester is authenticated and is its author; from anyone else it leaves
\* every post and every comment as they were.
C3_OnlyAuthorMutatesPost ==
    [][PostMutationStep =>
          /\ \A p \in DOMAIN posts :
                (p \notin DOMAIN posts' \/ posts'[p] # posts[p])
                => (request'.user \in Users /\ request'.user = posts[p].author
                       /\ request'.post_id = p)
          /\ \A c \in DOMAIN comments :
                (c \notin DOMAIN comments' \/ comments'[c] # comments[c])
                => (request'.user \in Users
                       /\ request'.user = posts[comments[c].post].author
                       /\ request'.post_id = comments[c].post)
          /\ DOMAIN posts' \subseteq DOMAIN posts
          /\ DOMAIN comments' \subseteq DOMAIN comments]_vars

C3_Witness ==
    /\ request.kind \in {"edit_post", "delete_post"}
    /\ request.method = "POST"
    /\ request.user \in Users
    /\ Exists(request.post_id)
    /\ posts[request.post_id].author # request.user
    /\ \E c \in DOMAIN comments : comments[c].post = request.post_id

\* The outcome the guard of the specification gives a request r, by its five
\* checks in order; "proceed" stands for the update or delete going ahead.
C9_Expected(r) ==
    IF ~Exists(r.post_id) THEN "NotFound"
    ELSE IF ~posts[r.post_id].is_published /\ posts[r.post_id].author # r.user
         THEN "NotFound"
    ELSE IF r.user = Anon THEN "login"
    ELSE IF posts[r.post_id].author # r.user THEN "post_detail"
    ELSE "proceed"

\* C9: the post edit/delete guard answers NotFound for an absent post,
\* NotFound for an unpublished post of another user, a redirect to login for
\* an anonymous requester, a redirect to the post's detail view for another
\* user, and otherwise lets the author through to a response that redirects
\* to the author's profile.
C9_GuardOrder ==
    [][PostMutationStep =>
          LET e == C9_Expected(request')
          IN  /\ e = "NotFound" => response' = NotFound
              /\ e = "login" => response' = RedirectLogin
              /\ e = "post_detail"
                    => response' = RedirectTo("post_detail", request'.post_id, "")
              /\ e = "proceed"
                    => \/ response' = RedirectTo("profile", 0, request'.user)
                       \/ response' = Ok]_vars

\* A step that handles a request to edit or delete a comment with a valid
\* submission.
CommentMutationStep ==
    /\ request'.kind \in {"edit_comment", "delete_comment"}
    /\ request'.method = "POST"
    /\ (request'.kind = "edit_comment" => request'.text # EmptyText)

\* The edit or delete of comment c by the step took effect.
CommentMutated(c) ==
    IF request'.kind = "edit_comment"
    THEN c \in DOMAIN comments' /\ comments'[c].text = request'.text
    ELSE c \notin DOMAIN comments'

\* C4: an edit or delete request on an existing comment takes effect (the
\* text is the submitted text, respectively the comment is gone) if and only
\* if the requester is authenticated and is its author; otherwise it is
\* denied (login redirect for an anonymous requester, forbidden for another
\* user) and the comment is unchanged.
C4_CommentMutationIffAuthor ==
    [][(CommentMutationStep /\ request'.comment_id \in DOMAIN comments) =>
          LET c == request'.comment_id
              u == request'.user
          IN  IF u = comments[c].author THEN CommentMutated(c)
              ELSE /\ c \in DOMAIN comments' /\ comments'[c] = comments[c]
                   /\ (u = Anon => response' = RedirectLogin)
                   /\ (u # Anon => response' = Forbidden)]_vars

\* C10: a comment edit or delete that passes the guard redirects to the
\* detail view of the comment's own post, whatever post_id the URL names.
C10_RedirectToParentPost ==
    [][(CommentMutationStep /\ request'.comment_id \in DOMAIN comments
           /\ request'.user = comments[request'.comment_id].author)
        => response' = RedirectTo("post_detail",
                                  comments[request'.comment_id].post, "")]_vars

\* C5: comment creation redirects an unauthenticated requester to login and
\* creates nothing; for an authenticated requester it ends in NotFound and
\* creates nothing when the post is absent or not publicly visible, and
\* otherwise adds exactly one comment by the requester on the post and
\* redirects to the post's detail view.
C5_CommentCreation ==
    [][(request'.kind = "add_comment" /\ request'.method = "POST"
           /\ request'.text # EmptyText)
        => LET p == request'.post_id
               u == request'.user
           IN  IF u = Anon
               THEN response' = RedirectLogin /\ comments' = comments
               ELSE IF ~(Exists(p) /\ PubliclyVisible(p))
               THEN response' = NotFound /\ comments' = comments
               ELSE /\ \E c \in DOMAIN comments' \ DOMAIN comments :
                          /\ DOMAIN comments' = DOMAIN comments \cup {c}
                          /\ comments'[c].author = u
                          /\ comments'[c].post = p
                    /\ \A d \in DOMAIN comments : comments'[d] = comments[d]
                    /\ response' = RedirectTo("post_detail", p, "")]_vars

\* The listing requests of the pagination store: the category and the user
\* that own all its posts, and an integer page number.
C6_ListingOfAll ==
    /\ request.kind \in {"index", "category_posts", "profile"}
    /\ request.kind = "category_posts" => request.name = "c1"
    /\ request.kind = "profile" => request.name = "u1"
    /\ request.page.kind = "int"

C6_Count == Cardinality(DOMAIN posts)
C6_LastPage == IF C6_Count = 0 THEN 1 ELSE (C6_Count + 9) \div 10

\* Page n of C6_Count posts of equal pub_date, ten to a page, newest id first.
C6_Items(n) ==
    [i \in 1..Min(10, C6_Count - (n - 1) * 10) |-> C6_Count - (n - 1) * 10 - i + 1]

C6_ShowsPage(n) ==
    /\ response.status = "OK"
    /\ response.page = n
    /\ response.items = C6_Items(n)

\* C6 as stated: on each of the three listings a page number above the last
\* page shows the last page and one below 1 shows page 1, with no error.
C6_ClampsToNearest ==
    C6_ListingOfAll =>
        IF request.page.n > C6_LastPage THEN C6_ShowsPage(C6_LastPage)
        ELSE IF request.page.n < 1 THEN C6_ShowsPage(1)
        ELSE C6_ShowsPage(request.page.n)

\* C6 amended: the profile listing shows the last page for every page number
\* outside 1..num_pages, below 1 as well as above the last page; the home and
\* category listings end in NotFound for such a number; within 1..num_pages
\* the three listings show the same page.
C6_ProfileLastPageOthersNotFound ==
    C6_ListingOfAll =>
        IF request.page.n >= 1 /\ request.page.n <= C6_LastPage
        THEN C6_ShowsPage(request.page.n)
        ELSE IF request.kind = "profile" THEN C6_ShowsPage(C6_LastPage)
        ELSE response = NotFound

C6_Witness ==
    /\ C6_ListingOfAll
    /\ request.kind = "profile"
    /\ request.page.n < 1
    /\ C6_LastPage = 2
    /\ C6_ShowsPage(2)

\* C7: every comment references an existing post and every post's location
\* is null or an existing location; a step that removes posts removes exactly
\* the comments of those posts and leaves the other comments as they were; a
\* step that removes a location removes no post and only nulls the location
\* of the posts that referenced it.
C7_Referenced ==
    /\ \A c \in DOMAIN comments : comments[c].post \in DOMAIN posts
    /\ \A p \in DOMAIN posts :
          posts[p].location = NoLocation \/ posts[p].location \in locations

C7_DeleteStep ==
    /\ \A c \in DOMAIN comments :
          /\ (c \in DOMAIN comments') <=> (comments[c].post \in DOMAIN posts')
          /\ c \in DOMAIN comments' => comments'[c] = comments[c]
    /\ \A l \in locations \ locations' :
          /\ DOMAIN posts' = DOMAIN posts
          /\ \A p \in DOMAIN posts :
                posts'[p] = IF posts[p].location = l
                            THEN [posts[p] EXCEPT !.location = NoLocation]
                            ELSE posts[p]

C7_ReferentialIntegrity == []C7_Referenced /\ [][C7_DeleteStep]_vars

C7_Witness ==
    /\ request.kind = "admin_delete_post"
    /\ nextCommentId > 1
    /\ comments = EmptyTable
    /\ posts # EmptyTable

\* Listings: posts are created, time passes, and the three listings are
\* requested by every requester.
NextList ==
    \/ AdminCreateCategory
    \/ Tick
    \/ PostCreate
    \/ Index
    \/ CategoryPosts
    \/ Profile

SpecList == Init /\ [][NextList]_vars

\* C11: a listing returned to a requester holds an unpublished post only of
\* that requester; the profile listing of a user holds, for every requester
\* but that user, only publicly visible posts.
C11_ListingsHideUnpublished ==
    (request.kind \in {"index", "category_posts", "profile"}
        /\ response.status = "OK")
    => \A p \in Range(response.items) :
          /\ ~posts[p].is_published => request.user = posts[p].author
          /\ (request.kind = "profile" /\ request.user # request.name)
                => PubliclyVisible(p)

\* Ownership: every create, edit and delete handler of posts, comments and
\* the profile, by every requester.
NextOwn ==
    \/ AdminCreateCategory
    \/ PostCreate
    \/ PostUpdate
    \/ PostDelete
    \/ CommentCreate
    \/ CommentUpdate
    \/ CommentDelete
    \/ UserUpdate

SpecOwn == Init /\ [][NextOwn]_vars

\* C12: over every request, a post that stays keeps its author and a comment
\* that stays keeps its author and its post; a post appears only by a
\* create_post request, with the requester as author; a comment appears only
\* by an add_comment request, with the requester as author and the post of
\* the request as parent.
C12_OwnershipStep ==
    /\ \A p \in DOMAIN posts' :
          IF p \in DOMAIN posts
          THEN posts'[p].author = posts[p].author
          ELSE /\ request'.kind = "create_post"
               /\ posts'[p].author = request'.user
    /\ \A c \in DOMAIN comments' :
          IF c \in DOMAIN comments
          THEN /\ comments'[c].author = comments[c].author
               /\ comments'[c].post = comments[c].post
          ELSE /\ request'.kind = "add_comment"
               /\ comments'[c].author = request'.user
               /\ comments'[c].post = request'.post_id

C12_OwnershipImmutable == [][C12_OwnershipStep]_vars

\* A comment edit by its author was saved, on a post of another user, after
\* the comment's author had edited the profile.
C12_Witness ==
    /\ request.kind = "edit_comment"
    /\ request.method = "POST"
    /\ request.comment_id \in DOMAIN comments
    /\ comments[request.comment_id].author = request.user
    /\ comments[request.comment_id].text = request.text
    /\ response.status = "ServerError"
    /\ posts[comments[request.comment_id].post].author # request.user
    /\ users[request.user].first_name # EmptyText
====
